---- MODULE Spec2Model ----
(***************************************************************************)
(* Model of genta_api.GentaAPI (src/src/genta_api/api.py): a client that   *)
(* holds a token and offers ChatCompletion and TextCompletion, each of     *)
(* which builds a request body, issues one requests.post and returns       *)
(* (response.json(), response.status_code).                                *)
(*                                                                         *)
(* Python values are written as their literals ("1", "True", "None",       *)
(* "0.7"); the stop argument is a sequence of strings.  An exception is    *)
(* named by its class ("TypeError"), "none" meaning that nothing was       *)
(* raised.                                                                 *)
(***************************************************************************)
EXTENDS Integers, Sequences, FiniteSets, TLC

VARIABLES token, ctorToken, call, request, prev

vars == <<token, ctorToken, call, request, prev>>

\* ------------------------------------------------------------------ bounds
\* longest chat history the callers pass
MaxHist == 2

\* ------------------------------------------------------- program constants
CHAT_URL == "https://api.genta.tech/chat/"

\* a text endpoint that is a copy of the chat endpoint
TEXT_URL_Chat == CHAT_URL

TEXT_URL == "https://api.genta.tech/text/"

\* the list literal of the role test
Roles == {"user", "assistant", "system"}

\* the headers both operations send
Headers == [ContentType |-> "application/json"]

\* the signature of ChatCompletion: parameter name |-> default
ChatDefaults ==
    [ model_name            |-> "Starstreak",
      best_of               |-> "1",
      decoder_input_details |-> "True",
      details               |-> "True",
      do_sample             |-> "True",
      max_new_tokens        |-> "128",
      repetition_penalty    |-> "1.03",
      return_full_text      |-> "False",
      seed                  |-> "None",
      stop                  |-> <<>>,
      temperature           |-> "0.7",
      top_k                 |-> "50",
      top_n_tokens          |-> "None",
      top_p                 |-> "0.95",
      truncate              |-> "None",
      typical_p             |-> "0.95",
      watermark             |-> "False" ]

\* the signature of TextCompletion: parameter name |-> default
TextDefaults ==
    [ model_name            |-> "Starstreak",
      best_of               |-> "1",
      decoder_input_details |-> "True",
      details               |-> "True",
      do_sample             |-> "True",
      max_new_tokens        |-> "128",
      repetition_penalty    |-> "1.03",
      return_full_text      |-> "False",
      seed                  |-> "None",
      stop                  |-> <<>>,
      temperature           |-> "0.7",
      top_k                 |-> "50",
      top_n_tokens          |-> "None",
      top_p                 |-> "0.95",
      truncate              |-> "None",
      typical_p             |-> "0.95",
      watermark             |-> "False" ]

\* ------------------------------------------------------ the callers' inputs
Tokens == {"tok-A", "tok-B"}

\* roles a caller may write into a message: allowed ones and one that is
\* not allowed
InputRoles == {"user", "system", "tool"}

Messages == [role : InputRoles, text : {"Hello, how are you?"}]

RECURSIVE SeqsUpTo(_, _)
SeqsUpTo(S, n) ==
    IF n = 0 THEN {<<>>}
    ELSE LET shorter == SeqsUpTo(S, n - 1)
         IN  shorter \cup {Append(s, x) : s \in {t \in shorter : Len(t) = n - 1}, x \in S}

ChatHistories == SeqsUpTo(Messages, MaxHist)

Texts == {"Hello", ""}

\* an explicit value for every keyword argument, each different from the
\* default and from the other parameters' values
Explicit(m) ==
    [ model_name            |-> m,
      best_of               |-> "2",
      decoder_input_details |-> "False",
      details               |-> "False",
      do_sample             |-> "False",
      max_new_tokens        |-> "64",
      repetition_penalty    |-> "1.2",
      return_full_text      |-> "True",
      seed                  |-> "42",
      stop                  |-> <<"###">>,
      temperature           |-> "0.1",
      top_k                 |-> "10",
      top_n_tokens          |-> "5",
      top_p                 |-> "0.5",
      truncate              |-> "256",
      typical_p             |-> "0.8",
      watermark             |-> "True" ]

ArgNames == DOMAIN ChatDefaults

ModelNames == {"Starstreak", "Nebula"}

Restrict(f, D) == [p \in D |-> f[p]]

\* the keyword arguments of a call: none, all of them, the model name alone,
\* the stop sequences alone (an empty function is a call with defaults only)
KwargSets ==
    {Restrict(Explicit(m), D) : m \in ModelNames, D \in {ArgNames, {"model_name"}}}
    \cup {Restrict(Explicit("Starstreak"), D) : D \in {{}, {"stop"}}}

\* what the transport does with the one request: a response with a status
\* code and a body, or a failure of the exchange
JsonDocs == {"{\"generated_text\": \"hi\"}", "{\"error\": \"boom\"}"}

Bodies == JsonDocs \cup {"<html>Bad Gateway</html>"}

StatusCodes == {200, 500}

TransportErrors == {"ConnectionError", "Timeout"}

Outcomes ==
    [kind : {"response"}, status : StatusCodes, body : Bodies, exc : {"none"}]
    \cup
    [kind : {"error"}, status : {0}, body : {""}, exc : TransportErrors]

NoOutcome == [kind |-> "none", status |-> 0, body |-> "", exc |-> "none"]

NoRequest == [url |-> "none"]

NoCall ==
    [op |-> "none", inputs |-> <<>>, kwargs |-> <<>>, exc |-> "none",
     result |-> <<>>, posts |-> 0, outcome |-> NoOutcome]

NoPrev == [op |-> "none", sent |-> FALSE, inputs |-> <<>>, kwargs |-> <<>>]

\* --------------------------------------------------------------- helpers
\* a binding in which the stop default is one shared list that the call
\* before left its stop sequences in
BindSharedStop(kwargs, defaults) ==
    [p \in DOMAIN defaults |->
        IF p \in DOMAIN kwargs THEN kwargs[p]
        ELSE IF p = "stop" /\ "stop" \in DOMAIN call.kwargs THEN call.kwargs.stop
        ELSE defaults[p]]

\* binding of a call's keyword arguments to the signature: a parameter the
\* caller left out takes the signature's default
Bind(kwargs, defaults) ==
    [p \in DOMAIN defaults |->
        IF p \in DOMAIN kwargs THEN kwargs[p] ELSE defaults[p]]

\* chat_history['role'] on a list: list indices must be integers or slices
ListSubscript(lst, key) == [exc |-> "TypeError", val |-> "None"]

\* the role loop: for each element, chat_history['role'] is evaluated (never
\* i['role']) and tested against the role list
RECURSIVE RoleLoop(_, _)
RoleLoop(chat_history, k) ==
    IF k > Len(chat_history) THEN "none"
    ELSE LET r == ListSubscript(chat_history, "role")
         IN  IF r.exc # "none" THEN r.exc
             ELSE IF r.val \notin Roles THEN "ValueError"
             ELSE RoleLoop(chat_history, k + 1)

Validate(chat_history) == RoleLoop(chat_history, 1)

\* a parameters dict with top_p and typical_p under each other's key
ParametersCrossed(a) ==
    [ best_of               |-> a.best_of,
      decoder_input_details |-> a.decoder_input_details,
      details               |-> a.details,
      do_sample             |-> a.do_sample,
      max_new_tokens        |-> a.max_new_tokens,
      repetition_penalty    |-> a.repetition_penalty,
      return_full_text      |-> a.return_full_text,
      seed                  |-> a.seed,
      stop                  |-> a.stop,
      temperature           |-> a.temperature,
      top_k                 |-> a.top_k,
      top_n_tokens          |-> a.top_n_tokens,
      top_p                 |-> a.typical_p,
      truncate              |-> a.truncate,
      typical_p             |-> a.top_p,
      watermark             |-> a.watermark ]

\* the "parameters" dict both operations build
Parameters(a) ==
    [ best_of               |-> a.best_of,
      decoder_input_details |-> a.decoder_input_details,
      details               |-> a.details,
      do_sample             |-> a.do_sample,
      max_new_tokens        |-> a.max_new_tokens,
      repetition_penalty    |-> a.repetition_penalty,
      return_full_text      |-> a.return_full_text,
      seed                  |-> a.seed,
      stop                  |-> a.stop,
      temperature           |-> a.temperature,
      top_k                 |-> a.top_k,
      top_n_tokens          |-> a.top_n_tokens,
      top_p                 |-> a.top_p,
      truncate              |-> a.truncate,
      typical_p             |-> a.typical_p,
      watermark             |-> a.watermark ]

\* a data dict that carries the model name where the token belongs
ChatDataNoToken(tok, chat_history, a) ==
    [ token      |-> a.model_name,
      inputs     |-> chat_history,
      model_name |-> a.model_name,
      parameters |-> Parameters(a) ]

\* the data dict of ChatCompletion
ChatData(tok, chat_history, a) ==
    [ token      |-> tok,
      inputs     |-> chat_history,
      model_name |-> a.model_name,
      parameters |-> Parameters(a) ]

\* the data dict of TextCompletion
TextData(tok, text, a) ==
    [ token      |-> tok,
      inputs     |-> text,
      model_name |-> a.model_name,
      parameters |-> Parameters(a) ]

\* a post that sends the request again when the first exchange did not end
\* in a 2xx response
PostRetry(url, data, headers, outcome) ==
    [ posts    |-> IF outcome.kind = "response" /\ outcome.status < 300 THEN 1 ELSE 2,
      request  |-> [url |-> url, body |-> data, headers |-> headers],
      exc      |-> outcome.exc,
      response |-> outcome ]

\* requests.post(url, json=data, headers=headers): one request goes out; the
\* transport answers with a response or raises
Post(url, data, headers, outcome) ==
    [ posts    |-> 1,
      request  |-> [url |-> url, body |-> data, headers |-> headers],
      exc      |-> outcome.exc,
      response |-> outcome ]

\* response.json(): the parsed body, or an error when the body is not JSON
ResponseJson(response) ==
    IF response.body \in JsonDocs
    THEN [exc |-> "none", val |-> [type |-> "dict", val |-> response.body]]
    ELSE [exc |-> "JSONDecodeError", val |-> [type |-> "none", val |-> ""]]

\* a return that raises for a status of 400 and more
ReturnRaiseForStatus(response) ==
    LET j == ResponseJson(response)
    IN  IF response.status_code >= 400
        THEN [exc |-> "HTTPError", result |-> <<>>]
        ELSE IF j.exc # "none"
        THEN [exc |-> j.exc, result |-> <<>>]
        ELSE [exc |-> "none",
              result |-> <<j.val, [type |-> "int", val |-> response.status_code]>>]

\* a return with the status code first
ReturnStatusFirst(response) ==
    LET j == ResponseJson(response)
    IN  IF j.exc # "none"
        THEN [exc |-> j.exc, result |-> <<>>]
        ELSE [exc |-> "none",
              result |-> <<[type |-> "int", val |-> response.status_code], j.val>>]

\* return response.json(), response.status_code
Return(response) ==
    LET j == ResponseJson(response)
    IN  IF j.exc # "none"
        THEN [exc |-> j.exc, result |-> <<>>]
        ELSE [exc |-> "none",
              result |-> <<j.val, [type |-> "int", val |-> response.status_code]>>]

\* a send that answers a failed exchange with an empty body and status 0
SendAndReturnFallback(url, data, outcome) ==
    LET p == Post(url, data, Headers, outcome)
        resp == [body |-> p.response.body, status_code |-> p.response.status]
        r == IF p.exc # "none"
             THEN [exc |-> "none",
                   result |-> <<[type |-> "dict", val |-> "{}"],
                                [type |-> "int", val |-> 0]>>]
             ELSE Return(resp)
    IN  [posts |-> p.posts, request |-> p.request, exc |-> r.exc,
         result |-> r.result]

\* the part of both operations from requests.post to the return
SendAndReturn(url, data, outcome) ==
    LET p == Post(url, data, Headers, outcome)
        resp == [body |-> p.response.body, status_code |-> p.response.status]
        r == IF p.exc # "none" THEN [exc |-> p.exc, result |-> <<>>]
             ELSE Return(resp)
    IN  [posts |-> p.posts, request |-> p.request, exc |-> r.exc,
         result |-> r.result]

\* what is remembered of the call before the last one: the operation, and
\* for a call that sent its request the arguments it was given
Summary(c) ==
    IF c.posts > 0
    THEN [op |-> c.op, sent |-> TRUE, inputs |-> c.inputs, kwargs |-> c.kwargs]
    ELSE [op |-> c.op, sent |-> FALSE, inputs |-> <<>>, kwargs |-> <<>>]

\* ------------------------------------------------------------- the machine
\* GentaAPI(token=t)
Init ==
    /\ ctorToken \in Tokens
    /\ token = ctorToken
    /\ call = NoCall
    /\ request = NoRequest
    /\ prev = NoPrev

ChatCompletion ==
    \E chat_history \in ChatHistories, kwargs \in KwargSets :
        LET a == Bind(kwargs, ChatDefaults)
            v == Validate(chat_history)
        IN  /\ prev' = Summary(call)
            /\ UNCHANGED <<token, ctorToken>>
            /\ IF v # "none"
               THEN /\ call' = [op |-> "chat", inputs |-> chat_history,
                                kwargs |-> kwargs, exc |-> v, result |-> <<>>,
                                posts |-> 0, outcome |-> NoOutcome]
                    /\ request' = NoRequest
               ELSE \E outcome \in Outcomes :
                    LET s == SendAndReturn(CHAT_URL,
                                           ChatData(token, chat_history, a),
                                           outcome)
                    IN  /\ call' = [op |-> "chat", inputs |-> chat_history,
                                    kwargs |-> kwargs, exc |-> s.exc,
                                    result |-> s.result, posts |-> s.posts,
                                    outcome |-> outcome]
                        /\ request' = s.request

TextCompletion ==
    \E text \in Texts, kwargs \in KwargSets, outcome \in Outcomes :
        LET a == Bind(kwargs, TextDefaults)
            s == SendAndReturn(TEXT_URL, TextData(token, text, a), outcome)
        IN  /\ prev' = Summary(call)
            /\ UNCHANGED <<token, ctorToken>>
            /\ call' = [op |-> "text", inputs |-> text, kwargs |-> kwargs,
                        exc |-> s.exc, result |-> s.result, posts |-> s.posts,
                        outcome |-> outcome]
            /\ request' = s.request

Next == ChatCompletion \/ TextCompletion

Spec == Init /\ [][Next]_vars

TypeOK ==
    /\ token \in Tokens
    /\ call.op \in {"none", "chat", "text"}
    /\ call.posts \in {0, 1}

\* ---------------------------------------------------------------- claims
Sent == call.posts > 0

AllRolesValid(h) == \A i \in 1..Len(h) : h[i].role \in Roles

\* the arguments a call ran with, after binding
ArgsOf(c) == Bind(c.kwargs, IF c.op = "chat" THEN ChatDefaults ELSE TextDefaults)

GenerationParameters == ArgNames \ {"model_name"}

\* C1: a ChatCompletion call whose history holds a message with a role
\* outside user, assistant, system fails with the validation error
\* (ValueError) and issues no request.
C1_InvalidRoleRejected ==
    (call.op = "chat" /\ ~AllRolesValid(call.inputs))
        => /\ call.exc = "ValueError"
           /\ call.posts = 0
           /\ request = NoRequest

\* C2: a ChatCompletion call whose history (empty or not) holds only allowed
\* roles raises nothing during validation and construction, and the body it
\* builds has every parameter of the signature (the model name and the
\* generation parameters, 17 names), each at its default when the caller left
\* it out.
C2_ValidHistoryBuildsBody ==
    (call.op = "chat" /\ AllRolesValid(call.inputs))
        => /\ call.exc \notin {"TypeError", "ValueError"}
           /\ call.posts = 1
           /\ Cardinality(DOMAIN request.body.parameters \cup {"model_name"}) = 17
           /\ \A p \in GenerationParameters \ DOMAIN call.kwargs :
                  request.body.parameters[p] = ChatDefaults[p]
           /\ "model_name" \notin DOMAIN call.kwargs
                  => request.body.model_name = ChatDefaults.model_name

C4_ExplicitValuesSent ==
    (Sent /\ DOMAIN call.kwargs = ArgNames)
        => /\ request.body.model_name = call.kwargs.model_name
           /\ DOMAIN request.body.parameters = GenerationParameters
           /\ \A p \in GenerationParameters :
                  request.body.parameters[p] = call.kwargs[p]

C4_Witness ==
    /\ call.op = "text"
    /\ Sent
    /\ DOMAIN call.kwargs = ArgNames
    /\ request.body.model_name = "Nebula"
    /\ request.body.parameters.top_p = "0.5"
    /\ request.body.parameters.top_p # TextDefaults.top_p

\* C5: every TextCompletion call, and every ChatCompletion call that passes
\* the role loop, issues exactly one POST, whatever the transport answers.
C5_ExactlyOnePost ==
    (call.op = "text" \/ (call.op = "chat" /\ Validate(call.inputs) = "none"))
        => /\ call.posts = 1
           /\ request # NoRequest

C5_Witness ==
    /\ call.op = "chat"
    /\ call.outcome.kind = "error"
    /\ call.posts = 1
    /\ prev.op = "text"
    /\ prev.sent

\* C6: the client's token stays the token given at construction and every
\* body sent carries it; two calls in a row of the same operation whose
\* arguments differ in the model name only send bodies that differ in the
\* model_name field only.
C6_TokenAndIndependentBodies ==
    /\ [](/\ token = ctorToken
          /\ Sent => request.body.token = ctorToken)
    /\ [][(/\ call.posts > 0
           /\ call'.posts > 0
           /\ call.op = call'.op
           /\ call.inputs = call'.inputs
           /\ \A p \in GenerationParameters : ArgsOf(call)[p] = ArgsOf(call')[p])
          => /\ request'.body.token = request.body.token
             /\ request'.body.inputs = request.body.inputs
             /\ request'.body.parameters = request.body.parameters
             /\ request'.url = request.url
             /\ request'.body.model_name = ArgsOf(call').model_name]_vars

C6_Witness ==
    /\ prev.sent
    /\ Sent
    /\ prev.op = "chat"
    /\ call.op = "chat"
    /\ prev.inputs = call.inputs
    /\ \A p \in GenerationParameters : ArgsOf(prev)[p] = ArgsOf(call)[p]
    /\ ArgsOf(prev).model_name # ArgsOf(call).model_name
    /\ request.body.model_name = "Nebula"
    /\ request.body.token = ctorToken
    /\ token = ctorToken

\* C7: TextCompletion runs no role check and sends the text itself as inputs
\* to the text endpoint, never the chat endpoint; a request of ChatCompletion
\* carries the chat history as given and goes to the chat endpoint, never the
\* text endpoint.
C7_EndpointsAndInputs ==
    /\ call.op = "text"
        => /\ call.posts = 1
           /\ call.exc \notin {"TypeError", "ValueError"}
           /\ request.url = TEXT_URL
           /\ request.url # CHAT_URL
           /\ request.body.inputs = call.inputs
    /\ (call.op = "chat" /\ Sent)
        => /\ request.url = CHAT_URL
           /\ request.url # TEXT_URL
           /\ request.body.inputs = call.inputs

C7_Witness ==
    /\ call.op = "text"
    /\ call.inputs = "Hello"
    /\ request.body.inputs = "Hello"
    /\ request.url = "https://api.genta.tech/text/"
    /\ prev.op = "chat"
    /\ prev.sent

\* C8: when the exchange fails in the transport, the call ends with that
\* very error, returns no (body, status) pair, and leaves the client as it
\* was.
C8_TransportErrorSurfaces ==
    (call.op \in {"chat", "text"} /\ call.outcome.kind = "error")
        => /\ call.exc = call.outcome.exc
           /\ call.result = <<>>
           /\ token = ctorToken

C8_Witness ==
    /\ call.op = "text"
    /\ call.outcome.kind = "error"
    /\ call.outcome.exc = "Timeout"
    /\ call.exc = "Timeout"
    /\ call.posts = 1

C10_StopDefaultEmpty ==
    (Sent /\ "stop" \notin DOMAIN call.kwargs)
        => request.body.parameters.stop = <<>>

C10_Witness ==
    /\ prev.sent
    /\ "stop" \in DOMAIN prev.kwargs
    /\ prev.kwargs.stop # <<>>
    /\ prev.op = "text"
    /\ call.op = "chat"
    /\ Sent
    /\ "stop" \notin DOMAIN call.kwargs
    /\ request.body.parameters.stop = <<>>

====
